---- MODULE Spec2Model ----
(* A model of make_submission.py: main() drives mask production (sequential,  *)
(* cached in the store directory) and then polygon production through a pool  *)
(* of worker processes whose results pool.imap hands back in input order.     *)
EXTENDS Integers, Sequences, FiniteSets, TLC

(***************************************************************************)
(* Bounds                                                                  *)
(***************************************************************************)
NumIds == 2          \* image ids are 1..NumIds, ordered as the id strings sort
NumClasses == 2      \* length of the configured class list

(***************************************************************************)
(* Program constants                                                       *)
(***************************************************************************)
Processes == 4       \* multiprocessing.Pool(processes=4)

Ids == 1..NumIds
ClassIdx == 0..(NumClasses - 1)
PolyTypes == 1..NumClasses

\* hps.classes: nothing in main or in get_poly_data rejects an unsorted list or
\* a repeated class index, so the lists tried are an ascending one, a descending
\* one and one whose last entry repeats the first
Ascending == [i \in 1..NumClasses |-> i - 1]
Descending == [i \in 1..NumClasses |-> NumClasses - i]
Repeating == [i \in 1..NumClasses |-> IF i = NumClasses THEN 0 ELSE i - 1]
ClassLists == {Ascending, Descending, Repeating}

\* sample_submission.csv: the header row and the ids of the rows with cls = '1'
header == <<"ImageId", "ClassType", "MultipolygonWKT">>
image_ids == [i \in 1..NumIds |-> NumIds + 1 - i]

\* utils.get_wkt_data(): the ground-truth table; every train image carries a
\* WKT string for every polygon type
TrainIds == {i \in Ids : i % 2 = 1}
train_wkt(im, t) == <<"truth", im, t>>

(***************************************************************************)
(* Files of the store                                                      *)
(***************************************************************************)
NoFile == [ch |-> 0, tag |-> "none"]
\* a file that im_path.open('wb') created and np.save has not completed
Partial == [ch |-> 0, tag |-> "partial"]
\* a complete mask file: channel count, and which inference produced it
MaskFile(n, t) == [ch |-> n, tag |-> t]
\* a mask cached by an earlier configuration with one class more
Stale == MaskFile(NumClasses + 1, "old")
exists(f) == f # NoFile
complete(f) == f.ch > 0

(***************************************************************************)
(* Pure helpers                                                            *)
(***************************************************************************)
RECURSIVE Str(_)
\* str(n) of a non-negative integer: its decimal digits
Str(n) == IF n < 10 THEN <<n>> ELSE Str(n \div 10) \o <<n % 10>>

RECURSIVE int(_)
\* the number a digit string denotes
int(s) == IF Len(s) = 0 THEN 0
          ELSE 10 * int(SubSeq(s, 1, Len(s) - 1)) + s[Len(s)]

SetMin(S) == CHOOSE x \in S : \A y \in S : x <= y

RECURSIVE sorted(_)
\* sorted(S) of a finite set of integers
sorted(S) == IF S = {} THEN <<>>
             ELSE <<SetMin(S)>> \o sorted(S \ {SetMin(S)})

Range(s) == {s[i] : i \in 1..Len(s)}

\* the orders in which iterating a set may yield it: Python leaves it unspecified
Orders(S) == {s \in [1..Cardinality(S) -> S] : Range(s) = S}

(***************************************************************************)
(* IEEE 754 binary64 arithmetic, as Python floats compute                  *)
(*                                                                         *)
(* A natural number is held as NumLimbs limbs of LimbBits bits, least      *)
(* significant first; a float is neg, a mantissa m of MantBits bits (or 0) *)
(* and an exponent e, of value m * 2^e. Every operation rounds its exact   *)
(* result to nearest, ties to even.                                        *)
(***************************************************************************)
MantBits == 53
LimbBits == 14
NumLimbs == 8
Base == 2^LimbBits

RECURSIVE Propagate(_, _, _)
\* the limbs of the number whose i-th limb and above are f[i], ..., plus carry c
Propagate(f, i, c) ==
    IF i > NumLimbs THEN <<>>
    ELSE <<(f[i] + c) % Base>> \o Propagate(f, i + 1, (f[i] + c) \div Base)

BigOfInt(n) == Propagate([i \in 1..NumLimbs |-> IF i = 1 THEN n ELSE 0], 1, 0)
BigZero == [i \in 1..NumLimbs |-> 0]
BigAdd(a, b) == Propagate([i \in 1..NumLimbs |-> a[i] + b[i]], 1, 0)
\* a - b, for a >= b
BigSub(a, b) == Propagate([i \in 1..NumLimbs |-> a[i] - b[i]], 1, 0)

RECURSIVE BigGeFrom(_, _, _)
BigGeFrom(a, b, i) ==
    IF i = 0 THEN TRUE
    ELSE IF a[i] # b[i] THEN a[i] > b[i]
    ELSE BigGeFrom(a, b, i - 1)

BigGe(a, b) == BigGeFrom(a, b, NumLimbs)

RECURSIVE Conv(_, _, _, _)
\* a[1]*b[k] + a[2]*b[k-1] + ... + a[i]*b[k+1-i]
Conv(a, b, k, i) ==
    IF i = 0 THEN 0 ELSE a[i] * b[k + 1 - i] + Conv(a, b, k, i - 1)

\* a * b, for factors of at most NumLimbs \div 2 limbs each
BigMul(a, b) ==
    Propagate([k \in 1..NumLimbs |-> Conv(a, b, k, k)], 1, 0)

Limb(a, i) == IF i \in 1..NumLimbs THEN a[i] ELSE 0

\* a * 2^k
BigShl(a, k) ==
    Propagate([i \in 1..NumLimbs |->
                  Limb(a, i - k \div LimbBits) * 2^(k % LimbBits)], 1, 0)

\* a \div 2^k
BigShr(a, k) ==
    LET q == k \div LimbBits
        r == k % LimbBits
    IN [i \in 1..NumLimbs |->
          Limb(a, i + q) \div 2^r
          + (Limb(a, i + q + 1) % 2^r) * 2^(LimbBits - r)]

RECURSIVE IntBits(_)
\* the bit length of a non-negative integer
IntBits(n) == IF n = 0 THEN 0 ELSE 1 + IntBits(n \div 2)

RECURSIVE BigBitsFrom(_, _)
BigBitsFrom(a, i) ==
    IF i = 0 THEN 0
    ELSE IF a[i] # 0 THEN (i - 1) * LimbBits + IntBits(a[i])
    ELSE BigBitsFrom(a, i - 1)

\* the bit length of a
BigBits(a) == BigBitsFrom(a, NumLimbs)

FloatZero == [neg |-> FALSE, m |-> BigZero, e |-> 0]
IsZero(x) == x.m = BigZero

\* the float nearest to n * 2^e, or to a value just above it when sticky
RoundBig(neg, n, e, sticky) ==
    LET bits == BigBits(n)
        d == bits - MantBits
    IN IF bits = 0 THEN FloatZero
       ELSE IF d <= 0 THEN [neg |-> neg, m |-> BigShl(n, 0 - d), e |-> e + d]
       ELSE LET q == BigShr(n, d)
                rest == BigSub(n, BigShl(q, d))
                half == BigShl(BigOfInt(1), d - 1)
                up == IF rest = half THEN sticky \/ q[1] % 2 = 1
                      ELSE BigGe(rest, half)
                q1 == IF up THEN BigAdd(q, BigOfInt(1)) ELSE q
            IN IF BigBits(q1) > MantBits
               THEN [neg |-> neg, m |-> BigShr(q1, 1), e |-> e + d + 1]
               ELSE [neg |-> neg, m |-> q1, e |-> e + d]

\* float(n) of an integer whose magnitude is below 2^31
FloatOfInt(n) ==
    RoundBig(n < 0, BigOfInt(IF n < 0 THEN 0 - n ELSE n), 0, FALSE)

\* a * b
FMul(a, b) ==
    IF IsZero(a) \/ IsZero(b) THEN FloatZero
    ELSE RoundBig(a.neg # b.neg, BigMul(a.m, b.m), a.e + b.e, FALSE)

\* the limbs of a significand, and of a divisor
HalfLimbs == NumLimbs \div 2
\* the quotient bits computed below the leading one
GuardBits == HalfLimbs * LimbBits
\* the shift that sets the top bit of the top limb of a divisor
NormShift == GuardBits - MantBits

\* rem \div d for rem < d * Base and a divisor d whose top bit is set: at most
\* two below the quotient of the leading limbs
DivDigit(rem, d) ==
    LET est == (rem[HalfLimbs + 1] * Base + rem[HalfLimbs]) \div d[HalfLimbs]
        hi == IF est >= Base THEN Base - 1 ELSE est
    IN CHOOSE t \in {s \in (hi - 2)..hi : s >= 0} :
          /\ BigGe(rem, BigMul(d, BigOfInt(t)))
          /\ ~BigGe(rem, BigMul(d, BigOfInt(t + 1)))

\* one more quotient limb of rem / d below the quotient q so far
DivStep(rem, d, q) ==
    CHOOSE qr \in {[q |-> BigAdd(BigShl(q, LimbBits), BigOfInt(t[2])),
                    rem |-> BigSub(t[1], BigMul(d, BigOfInt(t[2])))] :
                      t \in {<<r, DivDigit(r, d)>> :
                               r \in {BigShl(rem, LimbBits)}}} : TRUE

RECURSIVE DivSteps(_, _, _, _)
\* k more quotient limbs of rem / d below the quotient q so far, as the one
\* element of a set
DivSteps(rem, d, q, k) ==
    IF k = 0 THEN {[q |-> q, rem |-> rem]}
    ELSE {DivStep(s.rem, d, s.q) : s \in DivSteps(rem, d, q, k - 1)}

\* a / b, for b # 0
FDiv(a, b) ==
    IF IsZero(a) THEN FloatZero
    ELSE LET n == BigShl(a.m, NormShift)
             d == BigShl(b.m, NormShift)
             first == IF BigGe(n, d) THEN 1 ELSE 0
             r0 == IF first = 1 THEN BigSub(n, d) ELSE n
         IN CHOOSE x \in {RoundBig(a.neg # b.neg, qr.q, a.e - b.e - GuardBits,
                                   qr.rem # BigZero) :
                          qr \in DivSteps(r0, d, BigOfInt(first),
                                          HalfLimbs)} : TRUE

\* a + b, for a, b >= 0
FAdd(a, b) ==
    IF IsZero(a) THEN b
    ELSE IF IsZero(b) THEN a
    ELSE LET hi == IF a.e >= b.e THEN a ELSE b
             lo == IF a.e >= b.e THEN b ELSE a
             diff == hi.e - lo.e
         IN IF diff > GuardBits THEN hi
            ELSE RoundBig(FALSE, BigAdd(BigShl(hi.m, diff), lo.m), lo.e, FALSE)

\* a <= b, for a, b >= 0
FLe(a, b) ==
    IF IsZero(a) THEN TRUE
    ELSE IF IsZero(b) THEN FALSE
    ELSE IF a.e # b.e THEN a.e < b.e
    ELSE BigGe(b.m, a.m)

FloatOne == FloatOfInt(1)

\* |a - b| <= |b| * 2^(-k), for a and b of one sign and within a factor 2^GuardBits
FClose(a, b, k) ==
    IF IsZero(b) THEN IsZero(a)
    ELSE IF IsZero(a) THEN FALSE
    ELSE LET e0 == IF a.e <= b.e THEN a.e ELSE b.e
             x == BigShl(a.m, a.e - e0)
             y == BigShl(b.m, b.e - e0)
             d == IF BigGe(x, y) THEN BigSub(x, y) ELSE BigSub(y, x)
         IN /\ a.neg = b.neg
            /\ BigBits(d) + k <= NumLimbs * LimbBits
            /\ BigGe(y, BigShl(d, k))

\* '{:.5f}'.format(x) for 0 <= x < 2^10, as the integer of its digits: x in
\* units of 10^-5, rounded to nearest, ties to even
Format5(x) ==
    IF IsZero(x) THEN 0
    ELSE LET n == BigMul(x.m, BigOfInt(100000))
             d == 0 - x.e
             q == BigShr(n, d)
             rest == BigSub(n, BigShl(q, d))
             half == BigShl(BigOfInt(1), d - 1)
             up == IF rest = half THEN q[1] % 2 = 1 ELSE BigGe(rest, half)
         IN q[1] + q[2] * Base + (IF up THEN 1 ELSE 0)

(***************************************************************************)
(* get_polygons, get_poly_data                                             *)
(***************************************************************************)
EMPTY == <<"MULTIPOLYGON EMPTY">>

\* shapely.wkt.dumps of the polygons of channel cls_idx of the thresholded
\* mask of image im, scaled by the inverse scalers of im
pred_wkt(im, mask, cls_idx) == <<"pred", im, mask.tag, cls_idx>>

\* get_polygons: the dictionary poly_type -> polygons; a later entry of classes
\* with the same class overwrites an earlier one
get_polygons(im, mask, classes) ==
    [t \in {classes[i] + 1 : i \in 1..Len(classes)} |->
        LET last == CHOOSE i \in 1..Len(classes) :
                        /\ classes[i] + 1 = t
                        /\ \A j \in 1..Len(classes) : classes[j] + 1 = t => j <= i
        IN pred_wkt(im, mask, last - 1)]

\* polys: how many class channels utils.mask_to_polygons was called on
Raised(why) == [status |-> "raised", branch |-> why, rows |-> <<>>, polys |-> 0]
Returned(b, rows) ==
    [status |-> "ok", branch |-> b, rows |-> rows,
     polys |-> IF b = "empty" THEN 0 ELSE NumClasses]

\* get_poly_data with the assert of get_polygons gone: a mask with more
\* channels than classes is cut to the first len(classes) channels, one with
\* fewer fails at the first missing channel
get_poly_data_coerce(im, st, classes) ==
    IF exists(st[im])
    THEN IF ~complete(st[im]) THEN Raised("load")
         ELSE IF Len(classes) > st[im].ch
         THEN [status |-> "raised", branch |-> "index", rows |-> <<>>,
               polys |-> st[im].ch]
         ELSE LET poly_by_type == get_polygons(im, st[im], classes)
                  types == sorted(DOMAIN poly_by_type)
              IN IF im \in TrainIds
                 THEN Returned("truth",
                        [i \in 1..Len(classes) |->
                           <<im, Str(classes[i] + 1), train_wkt(im, classes[i] + 1)>>])
                 ELSE Returned("pred",
                        [i \in 1..Len(types) |->
                           <<im, Str(types[i]), poly_by_type[types[i]]>>])
    ELSE Returned("empty",
            [i \in 1..Len(classes) |-> <<im, Str(classes[i] + 1), EMPTY>>])

\* get_poly_data with the ground-truth test made before the test of the mask
\* file: a train image gets its ground truth whether or not a mask is cached
get_poly_data_truth_first(im, st, classes) ==
    IF im \in TrainIds
    THEN Returned("truth",
            [i \in 1..Len(classes) |->
               <<im, Str(classes[i] + 1), train_wkt(im, classes[i] + 1)>>])
    ELSE IF exists(st[im])
    THEN IF ~complete(st[im]) THEN Raised("load")
         ELSE IF Len(classes) # st[im].ch THEN Raised("assert")
         ELSE LET poly_by_type == get_polygons(im, st[im], classes)
                  types == sorted(DOMAIN poly_by_type)
              IN Returned("pred",
                        [i \in 1..Len(types) |->
                           <<im, Str(types[i]), poly_by_type[types[i]]>>])
    ELSE Returned("empty",
            [i \in 1..Len(classes) |-> <<im, Str(classes[i] + 1), EMPTY>>])

\* get_poly_data with the two branches of `if train_polygons` built alike, from
\* the class list: the prediction rows are neither sorted nor collapsed, and a
\* train image gets its prediction
get_poly_data_by_classes(im, st, classes) ==
    IF exists(st[im])
    THEN IF ~complete(st[im]) THEN Raised("load")
         ELSE IF Len(classes) # st[im].ch THEN Raised("assert")
         ELSE LET poly_by_type == get_polygons(im, st[im], classes)
              IN Returned(IF im \in TrainIds THEN "truth" ELSE "pred",
                        [i \in 1..Len(classes) |->
                           <<im, Str(classes[i] + 1),
                             poly_by_type[classes[i] + 1]>>])
    ELSE Returned("empty",
            [i \in 1..Len(classes) |-> <<im, Str(classes[i] + 1), EMPTY>>])

get_poly_data(im, st, classes) ==
    IF exists(st[im])
    THEN IF ~complete(st[im]) THEN Raised("load")            \* np.load fails
         ELSE IF Len(classes) # st[im].ch THEN Raised("assert")
         ELSE LET poly_by_type == get_polygons(im, st[im], classes)
                  types == sorted(DOMAIN poly_by_type)
              IN IF im \in TrainIds
                 THEN Returned("truth",
                        [i \in 1..Len(classes) |->
                           <<im, Str(classes[i] + 1), train_wkt(im, classes[i] + 1)>>])
                 ELSE Returned("pred",
                        [i \in 1..Len(types) |->
                           <<im, Str(types[i]), poly_by_type[types[i]]>>])
    ELSE Returned("empty",
            [i \in 1..Len(classes) |-> <<im, Str(classes[i] + 1), EMPTY>>])

(***************************************************************************)
(* State                                                                   *)
(***************************************************************************)
VARIABLES
    classes,      \* hps.classes
    store,        \* the store directory: image id -> file
    store_dir,    \* the store directory exists
    output,       \* the rows of the output csv; <<>> while the file does not exist
    args,         \* the arguments of the running invocation of main
    pc,           \* where main is
    model,        \* the model is built and its checkpoint restored
    to_predict,   \* the targets of the mask phase
    todo,         \* what the for loop over sorted(to_predict) has yet to visit
    mask,         \* the mask the last inference returned
    inferred,     \* the ids inference was called for in this invocation
    masks_done,   \* the for loop of the mask phase has finished in this invocation
    predicting,   \* the ids whose inference call has not returned yet
    cached,       \* the targets of the earlier invocations that finished their mask phase
    to_output,    \* the iterable handed to pool.imap, as the order it yields
    next_task,    \* the next index of to_output the pool hands to a worker
    inflight,     \* the indices workers are computing
    results,      \* index -> what get_poly_data returned or raised
    completed,    \* the indices in the order their tasks completed
    n_written,    \* how many results the loop over pool.imap has consumed
    call_im,      \* get_poly_data called on its own: the argument
    call_ret,     \* get_poly_data called on its own: the result
    pred_mask,    \* log_jaccard: the pixels of pred_mask above the threshold
    true_mask,    \* log_jaccard: the pixels of true_mask
    logged,       \* log_jaccard: the mask jaccard and the text logged for it
    scalers,      \* get_polygons: what determines the image's scalers
    pixel,        \* get_polygons: a vertex of the extracted polygons
    geo,          \* get_polygons: the vertex in the polygons returned
    back          \* the returned vertex scaled by the forward scalers

vars == <<classes, store, store_dir, output, args, pc, model, to_predict, todo,
          mask, inferred, masks_done, predicting, cached, to_output,
          next_task, inflight, results, completed, n_written, call_im,
          call_ret, pred_mask, true_mask, logged, scalers, pixel, geo, back>>

pool_vars == <<to_output, next_task, inflight, results, completed, n_written>>
mask_vars == <<to_predict, todo, mask, inferred, masks_done, predicting>>
jaccard_vars == <<pred_mask, true_mask, logged>>
scale_vars == <<scalers, pixel, geo, back>>
call_vars == <<call_im, call_ret, jaccard_vars, scale_vars>>

\* nothing logged, nothing scaled yet
None == [neg |-> FALSE, m |-> <<>>, e |-> 0]
NotLogged == [value |-> None, text |-> -1]
NoMasks ==
    /\ pred_mask = {}
    /\ true_mask = {}
    /\ logged = NotLogged
NoVertex ==
    /\ scalers = <<1, 1>>
    /\ pixel = <<0, 0>>
    /\ geo = <<None, None>>
    /\ back = <<None, None>>

Pending == [status |-> "pending", branch |-> "none", rows |-> <<>>, polys |-> 0]
NoArgs == [train_only |-> FALSE, masks_only |-> FALSE, only |-> {}, csv |-> TRUE]

\* --only: absent, or every id but the first
OnlyChoices == {{}, Ids \ {1}}

\* train_only, masks_only, only: the command line; csv: the output path ends
\* in '.csv'
Args == [train_only : BOOLEAN, masks_only : BOOLEAN, only : OnlyChoices,
         csv : BOOLEAN]

\* the store before the first invocation: per id no file, a cached mask, or a
\* mask left by a configuration with another class count
InitStores == [Ids -> {NoFile, MaskFile(NumClasses, "old"), Stale}]

Init ==
    /\ classes \in ClassLists
    /\ store \in InitStores
    /\ store_dir = (\E i \in Ids : exists(store[i]))
    /\ output = <<>>
    /\ args = NoArgs
    /\ pc = "idle"
    /\ model = FALSE
    /\ to_predict = {}
    /\ todo = <<>>
    /\ mask = NoFile
    /\ inferred = {}
    /\ masks_done = FALSE
    /\ predicting = {}
    /\ cached = {}
    /\ to_output = <<>>
    /\ next_task = 1
    /\ inflight = {}
    /\ results = <<>>
    /\ completed = <<>>
    /\ n_written = 0
    /\ call_im = 0
    /\ call_ret = Pending
    /\ NoMasks
    /\ NoVertex

(***************************************************************************)
(* main: arguments, store directory, model                                 *)
(***************************************************************************)
Stopped == pc \in {"idle", "done", "failed", "killed"}

\* main is invoked (again): parse_args
Start ==
    /\ Stopped
    /\ \E a \in Args : args' = a
    /\ pc' = "assert"
    /\ model' = FALSE
    /\ to_predict' = {}
    /\ todo' = <<>>
    /\ mask' = NoFile
    /\ inferred' = {}
    /\ masks_done' = FALSE
    /\ predicting' = {}
    /\ cached' = IF masks_done THEN cached \cup to_predict ELSE cached
    /\ to_output' = <<>>
    /\ next_task' = 1
    /\ inflight' = {}
    /\ results' = <<>>
    /\ completed' = <<>>
    /\ n_written' = 0
    /\ UNCHANGED <<classes, store, store_dir, output, call_vars>>

\* store.mkdir(exist_ok=True) placed before the assert
AssertCsv_mkdir_first ==
    /\ pc = "assert"
    /\ store_dir' = TRUE
    /\ pc' = IF args.csv THEN "restore" ELSE "failed"
    /\ UNCHANGED <<classes, store, output, args, model, mask_vars, cached,
                   pool_vars, call_vars>>

\* assert args.output.endswith('.csv'); store.mkdir(exist_ok=True)
AssertCsv ==
    /\ pc = "assert"
    /\ IF args.csv
       THEN /\ store_dir' = TRUE
            /\ pc' = "restore"
       ELSE /\ pc' = "failed"
            /\ UNCHANGED store_dir
    /\ UNCHANGED <<classes, store, output, args, model, mask_vars, cached,
                   pool_vars, call_vars>>

\* to_predict with --only looked at before --train-only
ToPredict_only_first(a) == IF a.only # {} THEN a.only
                           ELSE IF a.train_only THEN TrainIds
                           ELSE Range(image_ids)

ToPredict(a) == IF a.train_only THEN TrainIds
                ELSE IF a.only # {} THEN a.only ELSE Range(image_ids)

\* Model(hps), saver.restore, train_ids, to_predict
Restore ==
    /\ pc = "restore"
    /\ model' = TRUE
    /\ to_predict' = ToPredict(args)
    /\ todo' = sorted(ToPredict(args))
    /\ pc' = "loop"
    /\ UNCHANGED <<classes, store, store_dir, output, args, mask, inferred,
                   masks_done, predicting, cached, pool_vars, call_vars>>

(***************************************************************************)
(* main: the mask phase                                                    *)
(***************************************************************************)
\* if im_path.exists(): continue
Skip ==
    /\ pc = "loop"
    /\ todo # <<>>
    /\ exists(store[Head(todo)])
    /\ todo' = Tail(todo)
    /\ UNCHANGED <<classes, store, store_dir, output, args, pc, model,
                   to_predict, mask, inferred, masks_done, predicting, cached,
                   pool_vars, call_vars>>

\* the mask model.image_prediction returns: one channel per configured class
image_prediction(im, cls) == MaskFile(Len(cls), "new")

\* the mask phase without the test of im_path.exists()
Predict_unchecked ==
    /\ pc = "loop"
    /\ todo # <<>>
    /\ predicting' = predicting \cup {Head(todo)}
    /\ inferred' = inferred \cup {Head(todo)}
    /\ pc' = "predicting"
    /\ UNCHANGED <<classes, store, store_dir, output, args, model, to_predict,
                   todo, mask, masks_done, cached, pool_vars, call_vars>>

\* inference started and not waited for: the loop goes on to the next id
Predict_async ==
    /\ pc = "loop"
    /\ todo # <<>>
    /\ ~exists(store[Head(todo)])
    /\ predicting' = predicting \cup {Head(todo)}
    /\ inferred' = inferred \cup {Head(todo)}
    /\ todo' = Tail(todo)
    /\ UNCHANGED <<classes, store, store_dir, output, args, pc, model,
                   to_predict, mask, masks_done, cached, pool_vars, call_vars>>

\* model.image_prediction(im, sess) is called
Predict ==
    /\ pc = "loop"
    /\ todo # <<>>
    /\ ~exists(store[Head(todo)])
    /\ predicting' = predicting \cup {Head(todo)}
    /\ inferred' = inferred \cup {Head(todo)}
    /\ pc' = "predicting"
    /\ UNCHANGED <<classes, store, store_dir, output, args, model, to_predict,
                   todo, mask, masks_done, cached, pool_vars, call_vars>>

\* model.image_prediction returns; astype(np.float16) and the shape assert
Predicted ==
    /\ pc = "predicting"
    /\ mask' = image_prediction(Head(todo), classes)
    /\ predicting' = predicting \ {Head(todo)}
    /\ pc' = "predicted"
    /\ UNCHANGED <<classes, store, store_dir, output, args, model, to_predict,
                   todo, inferred, masks_done, cached, pool_vars, call_vars>>

\* im_path.open('wb')
OpenMask ==
    /\ pc = "predicted"
    /\ store' = [store EXCEPT ![Head(todo)] = Partial]
    /\ pc' = "opened"
    /\ UNCHANGED <<classes, store_dir, output, args, model, mask_vars, cached,
                   pool_vars, call_vars>>

\* np.save(f, mask) and the end of the with block
SaveMask ==
    /\ pc = "opened"
    /\ store' = [store EXCEPT ![Head(todo)] = mask]
    /\ todo' = Tail(todo)
    /\ pc' = "loop"
    /\ UNCHANGED <<classes, store_dir, output, args, model, to_predict, mask,
                   inferred, masks_done, predicting, cached, pool_vars,
                   call_vars>>

\* the for loop is exhausted and the session is closed
EndMasks ==
    /\ pc = "loop"
    /\ todo = <<>>
    /\ masks_done' = TRUE
    /\ pc' = "masks"
    /\ UNCHANGED <<classes, store, store_dir, output, args, model, to_predict,
                   todo, mask, inferred, predicting, cached, pool_vars,
                   call_vars>>

\* the process is killed during the mask phase
Interrupt ==
    /\ pc \in {"loop", "predicting", "predicted", "opened"}
    /\ pc' = "killed"
    /\ predicting' = {}
    /\ UNCHANGED <<classes, store, store_dir, output, args, model, to_predict,
                   todo, mask, inferred, masks_done, cached, pool_vars,
                   call_vars>>

\* if args.masks_only: return
MasksOnly ==
    /\ pc = "masks"
    /\ args.masks_only
    /\ pc' = "done"
    /\ UNCHANGED <<classes, store, store_dir, output, args, model, mask_vars,
                   cached, pool_vars, call_vars>>

(***************************************************************************)
(* main: the polygon phase                                                 *)
(***************************************************************************)
\* to_output taken from image_ids even when --only names a subset
ToOutput_all(a) == IF a.train_only THEN Orders(TrainIds) ELSE {image_ids}

\* to_output with every id listed once per class row of the sample submission
ToOutput_per_row(a) ==
    {o \o o : o \in IF a.train_only THEN Orders(TrainIds)
                     ELSE IF a.only # {} THEN Orders(a.only) ELSE {image_ids}}

\* to_output: a set iterates in an unspecified order, image_ids in file order
ToOutput(a) == IF a.train_only THEN Orders(TrainIds)
               ELSE IF a.only # {} THEN Orders(a.only) ELSE {image_ids}

\* the output opened before args.masks_only is looked at
OpenOutput_early ==
    /\ pc = "masks"
    /\ output' = <<header>>
    /\ \E order \in ToOutput(args) :
          /\ to_output' = order
          /\ results' = [i \in 1..Len(order) |-> Pending]
    /\ pc' = "pool"
    /\ UNCHANGED <<classes, store, store_dir, args, model, mask_vars, cached,
                   next_task, inflight, completed, n_written, call_vars>>

\* open(args.output, 'wt'); writer.writerow(header); the pool is created and
\* pool.imap is handed to_output
OpenOutput ==
    /\ pc = "masks"
    /\ ~args.masks_only
    /\ output' = <<header>>
    /\ \E order \in ToOutput(args) :
          /\ to_output' = order
          /\ results' = [i \in 1..Len(order) |-> Pending]
    /\ pc' = "pool"
    /\ UNCHANGED <<classes, store, store_dir, args, model, mask_vars, cached,
                   next_task, inflight, completed, n_written, call_vars>>

\* an idle worker of the pool takes the next task of the task queue
Dispatch ==
    /\ pc = "pool"
    /\ next_task <= Len(to_output)
    /\ Cardinality(inflight) < Processes
    /\ inflight' = inflight \cup {next_task}
    /\ next_task' = next_task + 1
    /\ UNCHANGED <<classes, store, store_dir, output, args, pc, model,
                   mask_vars, cached, to_output, results, completed,
                   n_written, call_vars>>

\* a worker runs get_poly_data on its task and sends the outcome back
Work(i) ==
    /\ pc = "pool"
    /\ i \in inflight
    /\ results' = [results EXCEPT ![i] = get_poly_data(to_output[i], store, classes)]
    /\ inflight' = inflight \ {i}
    /\ completed' = Append(completed, i)
    /\ UNCHANGED <<classes, store, store_dir, output, args, pc, model,
                   mask_vars, cached, to_output, next_task, n_written,
                   call_vars>>

\* writer.writerow(rows[0]) in place of writer.writerows(rows)
writerow_first(out, rows) == out \o SubSeq(rows, 1, 1)

\* writer.writerows(rows)
writerows(out, rows) == out \o rows

\* pool.imap_unordered: the result that completed next
NextResult_unordered ==
    IF n_written < Len(completed) THEN results[completed[n_written + 1]]
    ELSE Pending

\* the result pool.imap yields next: that of the next index of to_output
NextResult == results[n_written + 1]

\* for rows in pool.imap(...): writer.writerows(rows)
WriteRows ==
    /\ pc = "pool"
    /\ n_written < Len(to_output)
    /\ NextResult.status = "ok"
    /\ output' = writerows(output, NextResult.rows)
    /\ n_written' = n_written + 1
    /\ UNCHANGED <<classes, store, store_dir, args, pc, model, mask_vars,
                   cached, to_output, next_task, inflight, results, completed,
                   call_vars>>

\* pool.imap re-raises in main what the task raised; leaving the with blocks
\* terminates the pool and closes the output file
Reraise ==
    /\ pc = "pool"
    /\ n_written < Len(to_output)
    /\ NextResult.status = "raised"
    /\ inflight' = {}
    /\ pc' = "failed"
    /\ UNCHANGED <<classes, store, store_dir, output, args, model, mask_vars,
                   cached, to_output, next_task, results, completed, n_written,
                   call_vars>>

\* pool.imap is exhausted: main returns
Finish ==
    /\ pc = "pool"
    /\ n_written = Len(to_output)
    /\ pc' = "done"
    /\ UNCHANGED <<classes, store, store_dir, output, args, model, mask_vars,
                   cached, pool_vars, call_vars>>

Next ==
    \/ Start
    \/ AssertCsv
    \/ Restore
    \/ Skip
    \/ Predict
    \/ Predicted
    \/ OpenMask
    \/ SaveMask
    \/ EndMasks
    \/ Interrupt
    \/ MasksOnly
    \/ OpenOutput
    \/ Dispatch
    \/ \E i \in inflight : Work(i)
    \/ WriteRows
    \/ Reraise
    \/ Finish

Spec == Init /\ [][Next]_vars

(***************************************************************************)
(* get_poly_data called on its own, on any store                           *)
(***************************************************************************)
\* a mask cached by an earlier configuration with one class less
Short == MaskFile(NumClasses - 1, "old")

Files == {NoFile, Partial, Stale, Short, MaskFile(NumClasses, "old"),
          MaskFile(NumClasses, "new")}

InitCall ==
    /\ classes \in ClassLists
    /\ store \in [Ids -> Files]
    /\ store_dir = TRUE
    /\ output = <<>>
    /\ args = NoArgs
    /\ pc = "call"
    /\ model = FALSE
    /\ to_predict = {}
    /\ todo = <<>>
    /\ mask = NoFile
    /\ inferred = {}
    /\ masks_done = FALSE
    /\ predicting = {}
    /\ cached = {}
    /\ to_output = <<>>
    /\ next_task = 1
    /\ inflight = {}
    /\ results = <<>>
    /\ completed = <<>>
    /\ n_written = 0
    /\ call_im = 0
    /\ call_ret = Pending
    /\ NoMasks
    /\ NoVertex

Call(im) ==
    /\ pc = "call"
    /\ call_im' = im
    /\ call_ret' = get_poly_data(im, store, classes)
    /\ UNCHANGED <<classes, store, store_dir, output, args, pc, model,
                   mask_vars, cached, pool_vars, jaccard_vars, scale_vars>>

NextCall == \E im \in Ids : Call(im)

SpecCall == InitCall /\ [][NextCall]_vars

(***************************************************************************)
(* log_jaccard: the mask jaccard of one class                              *)
(***************************************************************************)
NumPixels == 3
MaskPixels == 1..NumPixels

\* eps = 1e-15: 10^15 is a float, and 1 / 10^15 rounds as the literal does
eps ==
    FDiv(FloatOne,
         RoundBig(FALSE, BigMul(BigOfInt(10^7), BigOfInt(10^8)), 0, FALSE))

\* the counts of the pixels set in both masks, in pred only, in truth only
mask_tp_fp_fn(pred, truth) ==
    <<Cardinality(pred \cap truth), Cardinality(pred \ truth),
      Cardinality(truth \ pred)>>

\* tp / (fp + fn + eps): the true positives left out of the union
mask_jaccard_without_tp(tp, fp, fn) ==
    FDiv(FloatOfInt(tp), FAdd(FloatOfInt(fp + fn), eps))

\* tp / (tp + fp + fn + eps)
mask_jaccard(tp, fp, fn) ==
    FDiv(FloatOfInt(tp), FAdd(FloatOfInt(tp + fp + fn), eps))

InitJaccard ==
    /\ classes = Ascending
    /\ store = [i \in Ids |-> NoFile]
    /\ store_dir = TRUE
    /\ output = <<>>
    /\ args = NoArgs
    /\ pc = "log_jaccard"
    /\ model = FALSE
    /\ to_predict = {}
    /\ todo = <<>>
    /\ mask = NoFile
    /\ inferred = {}
    /\ masks_done = FALSE
    /\ predicting = {}
    /\ cached = {}
    /\ to_output = <<>>
    /\ next_task = 1
    /\ inflight = {}
    /\ results = <<>>
    /\ completed = <<>>
    /\ n_written = 0
    /\ call_im = 0
    /\ call_ret = Pending
    /\ pred_mask \in SUBSET MaskPixels
    /\ true_mask \in SUBSET MaskPixels
    /\ logged = NotLogged
    /\ NoVertex

\* one pass of the loop of log_jaccard: the mask jaccard and its '{:.5f}'
log_jaccard ==
    /\ pc = "log_jaccard"
    /\ logged = NotLogged
    /\ LET n == mask_tp_fp_fn(pred_mask, true_mask)
       IN \E v \in {mask_jaccard(n[1], n[2], n[3])} :
             logged' = [value |-> v, text |-> Format5(v)]
    /\ UNCHANGED <<classes, store, store_dir, output, args, pc, model,
                   mask_vars, cached, pool_vars, call_im, call_ret,
                   pred_mask, true_mask, scale_vars>>

NextJaccard == log_jaccard

SpecJaccard == InitJaccard /\ [][NextJaccard]_vars

(***************************************************************************)
(* get_polygons: the scaling of the extracted polygons                     *)
(***************************************************************************)
MaxCoord == 3
MaxScaler == 5

\* the scalers of an image: any multiples of one half here, x_scaler above
\* zero and y_scaler below, so that both signs occur
get_scalers(s) ==
    <<FDiv(FloatOfInt(s[1]), FloatOfInt(2)),
      FDiv(FloatOfInt(0 - s[2]), FloatOfInt(2))>>

\* a vertex of the polygons mask_to_polygons returns: pixel coordinates
vertex(p) == <<FloatOfInt(p[1]), FloatOfInt(p[2])>>

\* shapely.affinity.scale(v, xfact, yfact, origin=(0, 0, 0)) at one vertex
scale(v, xfact, yfact) == <<FMul(xfact, v[1]), FMul(yfact, v[2])>>

\* the extracted polygons scaled by the scalers themselves
scale_polygons_forward(v, sc) == scale(v, sc[1], sc[2])

\* x_scaler = 1 / x_scaler, y_scaler = 1 / y_scaler, then the scaling of the
\* extracted polygons
scale_polygons(v, sc) ==
    scale(v, FDiv(FloatOne, sc[1]), FDiv(FloatOne, sc[2]))

\* scaling by the forward scalers, as for the reference polygons
scale_to_mask(v, sc) == scale(v, sc[1], sc[2])

InitScale ==
    /\ classes = Ascending
    /\ store = [i \in Ids |-> NoFile]
    /\ store_dir = TRUE
    /\ output = <<>>
    /\ args = NoArgs
    /\ pc = "get_polygons"
    /\ model = FALSE
    /\ to_predict = {}
    /\ todo = <<>>
    /\ mask = NoFile
    /\ inferred = {}
    /\ masks_done = FALSE
    /\ predicting = {}
    /\ cached = {}
    /\ to_output = <<>>
    /\ next_task = 1
    /\ inflight = {}
    /\ results = <<>>
    /\ completed = <<>>
    /\ n_written = 0
    /\ call_im = 0
    /\ call_ret = Pending
    /\ NoMasks
    /\ scalers \in (1..MaxScaler) \X (1..MaxScaler)
    /\ pixel \in (0..MaxCoord) \X (0..MaxCoord)
    /\ geo = <<None, None>>
    /\ back = <<None, None>>

\* get_polygons scales what it extracted
ScalePolygons ==
    /\ pc = "get_polygons"
    /\ geo = <<None, None>>
    /\ \E g \in {scale_polygons(vertex(pixel), get_scalers(scalers))} :
          geo' = g
    /\ UNCHANGED <<classes, store, store_dir, output, args, pc, model,
                   mask_vars, cached, pool_vars, call_im, call_ret,
                   jaccard_vars, scalers, pixel, back>>

\* the polygons get_polygons returned are scaled by the forward scalers
ScaleBack ==
    /\ pc = "get_polygons"
    /\ geo # <<None, None>>
    /\ back = <<None, None>>
    /\ \E b \in {scale_to_mask(geo, get_scalers(scalers))} : back' = b
    /\ UNCHANGED <<classes, store, store_dir, output, args, pc, model,
                   mask_vars, cached, pool_vars, call_im, call_ret,
                   jaccard_vars, scalers, pixel, geo>>

NextScale == ScalePolygons \/ ScaleBack

SpecScale == InitScale /\ [][NextScale]_vars

(***************************************************************************)
(* Properties                                                              *)
(***************************************************************************)
\* the row indices of the output table below the header
RowIdx(out) == 2..Len(out)

\* how many rows of the output table carry image im and polygon type t
Count(out, im, t) ==
    Cardinality({k \in RowIdx(out) : out[k][1] = im /\ int(out[k][2]) = t})

\* how often class index c occurs in the class list
Occurs(cls, c) == Cardinality({i \in 1..Len(cls) : cls[i] = c})

\* main has returned from a run that went through the polygon phase
Complete == pc = "done" /\ ~args.masks_only

\* C1 (as stated): after a complete run, every target image and every
\* configured class has exactly one row (ImageId, c+1, geometry) in the output.
C1_Original ==
    Complete =>
        \A im \in Range(to_output) : \A c \in Range(classes) :
            Count(output, im, c + 1) = 1

\* C1 (amended): after a complete run no (ImageId, c+1) pair is missing; an
\* image without ground truth has exactly one row per pair, and an image with
\* ground truth has one row per occurrence of c in the class list, so exactly
\* one when the class list repeats no index.
C1_Rows ==
    Complete =>
        \A im \in Range(to_output) : \A c \in Range(classes) :
            Count(output, im, c + 1) =
                IF im \in TrainIds THEN Occurs(classes, c) ELSE 1

C1_Witness ==
    /\ Complete
    /\ \E im \in Range(to_output) : store[im].tag = "old"
    /\ \E im \in Range(to_output) : im \in inferred
    /\ Len(output) > 1

\* the rows the ground-truth branch builds
TruthRows(im, cls) ==
    [i \in 1..Len(cls) |-> <<im, Str(cls[i] + 1), train_wkt(im, cls[i] + 1)>>]

EmptyRows(im, cls) ==
    [i \in 1..Len(cls) |-> <<im, Str(cls[i] + 1), EMPTY>>]

Called == call_im \in Ids

\* C2 (as stated): whatever the store holds, the rows get_poly_data returns
\* for an image of the ground-truth table carry the ground-truth WKT per class.
C2_Original ==
    (Called /\ call_im \in TrainIds /\ call_ret.status = "ok") =>
        call_ret.rows = TruthRows(call_im, classes)

\* C2 (amended): the rows get_poly_data returns for an image of the
\* ground-truth table carry the ground-truth WKT per class when a cached mask
\* exists for the image; with no cached mask they carry MULTIPOLYGON EMPTY.
C2_Truth ==
    (Called /\ call_im \in TrainIds /\ call_ret.status = "ok") =>
        call_ret.rows = IF exists(store[call_im])
                        THEN TruthRows(call_im, classes)
                        ELSE EmptyRows(call_im, classes)

C2_Witness ==
    /\ Called
    /\ call_im \in TrainIds
    /\ exists(store[call_im])
    /\ call_ret.status = "ok"
    /\ call_ret.rows = TruthRows(call_im, classes)

\* C3: with no cached mask, get_poly_data returns without raising exactly
\* len(classes) rows (ImageId, c+1, 'MULTIPOLYGON EMPTY'), one per entry of
\* the class list, whether or not the image has ground truth.
C3_Empty ==
    (Called /\ ~exists(store[call_im])) =>
        /\ call_ret.status = "ok"
        /\ Len(call_ret.rows) = Len(classes)
        /\ \A i \in 1..Len(classes) :
              /\ call_ret.rows[i][1] = call_im
              /\ int(call_ret.rows[i][2]) = classes[i] + 1
              /\ call_ret.rows[i][3] = EMPTY

C3_Witness ==
    /\ Called
    /\ call_im \in TrainIds
    /\ ~exists(store[call_im])
    /\ Len(call_ret.rows) = NumClasses

\* the cached mask of the call loads and has one channel per configured class
Matching == complete(store[call_im]) /\ store[call_im].ch = Len(classes)

TypesOf(rows) == {int(rows[i][2]) : i \in 1..Len(rows)}

\* C4 (as stated): with a cached mask of len(classes) channels get_poly_data
\* returns exactly len(classes) rows, one per configured class, in both
\* branches, a class list with a repeated index included.
C4_Original ==
    (Called /\ Matching) =>
        /\ call_ret.status = "ok"
        /\ Len(call_ret.rows) = Len(classes)
        /\ TypesOf(call_ret.rows) = {c + 1 : c \in Range(classes)}

\* C4 (amended): with a cached mask of len(classes) channels get_poly_data
\* returns a row for every configured class; the ground-truth branch returns
\* len(classes) rows, one per entry of the class list, and the prediction
\* branch one row per distinct class index, so len(classes) rows exactly when
\* the class list repeats no index.
C4_Rows ==
    (Called /\ Matching) =>
        /\ call_ret.status = "ok"
        /\ TypesOf(call_ret.rows) = {c + 1 : c \in Range(classes)}
        /\ Len(call_ret.rows) = IF call_im \in TrainIds THEN Len(classes)
                                ELSE Cardinality(Range(classes))

C4_Witness ==
    /\ Called
    /\ Matching
    /\ call_im \notin TrainIds
    /\ Cardinality(Range(classes)) < Len(classes)
    /\ call_ret.status = "ok"

\* the image of row k of the output table
ImageOf(out, k) == out[k][1]

\* C5: the rows of one image are contiguous in the output table
C5_Contiguous ==
    \A i, j, k \in RowIdx(output) :
        (i < j /\ j < k /\ ImageOf(output, i) = ImageOf(output, k))
            => ImageOf(output, j) = ImageOf(output, i)

C5_Witness ==
    /\ Len(completed) >= 2
    /\ completed[1] > completed[2]
    /\ n_written >= 2
    /\ \E i, k \in RowIdx(output) :
          i + 1 < k /\ ImageOf(output, i) # ImageOf(output, k)

\* the first row of the output table that carries image im
FirstRow(out, im) ==
    CHOOSE k \in RowIdx(out) :
        /\ ImageOf(out, k) = im
        /\ \A j \in RowIdx(out) : ImageOf(out, j) = im => k <= j

\* task a completed before task b
CompletedBefore(a, b) ==
    \E i, j \in 1..Len(completed) :
        i < j /\ completed[i] = a /\ completed[j] = b

\* C6 (as stated): when the task of image B completes before the task of an
\* earlier dispatched image A, B's rows are written before A's.
C6_Original ==
    \A a, b \in 1..n_written :
        (a < b /\ CompletedBefore(b, a)) =>
            FirstRow(output, to_output[b]) < FirstRow(output, to_output[a])

\* C6 (amended): the row-groups of different images are written in the order
\* of to_output, the order the tasks were handed to pool.imap, whatever the
\* order in which the tasks complete.
C6_InputOrder ==
    \A a, b \in 1..n_written :
        a < b => FirstRow(output, to_output[a]) < FirstRow(output, to_output[b])

C6_Witness ==
    /\ n_written >= 2
    /\ CompletedBefore(2, 1)
    /\ FirstRow(output, to_output[1]) < FirstRow(output, to_output[2])

Ascends(rows) ==
    \A i, j \in 1..Len(rows) : i < j => int(rows[i][2]) <= int(rows[j][2])

\* C7 (as stated): the rows get_poly_data returns are ordered by ascending
\* PolygonType for every class list, in all three branches.
C7_Original == (Called /\ call_ret.status = "ok") => Ascends(call_ret.rows)

\* C7 (amended): in the prediction branch the rows are ordered by strictly
\* ascending PolygonType for every class list; in the ground-truth and the
\* missing-mask branch they follow the order of the class list, so they ascend
\* exactly when the class list does.
C7_Order ==
    (Called /\ call_ret.status = "ok") =>
        IF call_ret.branch = "pred"
        THEN \A i, j \in 1..Len(call_ret.rows) :
                i < j => int(call_ret.rows[i][2]) < int(call_ret.rows[j][2])
        ELSE /\ Len(call_ret.rows) = Len(classes)
             /\ \A i \in 1..Len(classes) :
                   int(call_ret.rows[i][2]) = classes[i] + 1

C7_Witness ==
    /\ Called
    /\ call_ret.status = "ok"
    /\ call_ret.branch = "pred"
    /\ Len(call_ret.rows) >= 2
    /\ \E i \in 1..(Len(classes) - 1) : classes[i] > classes[i + 1]

InMaskPhase == pc \in {"loop", "predicting", "predicted", "opened"}

\* C8: an id whose mask file exists when the mask phase reaches it gets no
\* inference call and its file is left as it is; a run whose targets were all
\* targets of earlier runs that finished their mask phase makes no inference
\* call and changes no file of the store.
C8_Idempotent ==
    [][ /\ (pc = "loop" /\ todo # <<>> /\ exists(store[Head(todo)]))
            => /\ store' = store /\ inferred' = inferred
               /\ pc' \notin {"predicting", "predicted"}
        /\ (InMaskPhase /\ to_predict \subseteq cached)
            => (store' = store /\ inferred' = {}) ]_vars

C8_Witness ==
    /\ masks_done
    /\ to_predict # {}
    /\ to_predict \subseteq cached
    /\ inferred = {}
    /\ \E im \in to_predict : store[im].tag = "new"

Dispatched == next_task > 1 \/ inflight # {} \/ completed # <<>>

\* C9: no task is handed to the pool before the mask phase has finished for
\* every target, every id of to_output then has a mask file in the store, and
\* no task of the run takes the missing-mask branch.
C9_Barrier ==
    /\ Dispatched => (pc \in {"pool", "done", "failed"} /\ masks_done /\ todo = <<>>)
    /\ pc = "pool" => \A im \in Range(to_output) : exists(store[im])
    /\ \A i \in 1..Len(results) : results[i].branch # "empty"

C9_Witness ==
    /\ pc = "pool"
    /\ inferred # {}
    /\ \E i \in 1..Len(results) :
          results[i].status = "ok" /\ to_output[i] \in inferred

\* C10: in masks-only mode the output table is never created or written and
\* no task is handed to the pool; main returns after a mask phase that has
\* visited every target.
C10_MasksOnly ==
    [][ args'.masks_only =>
          /\ output' = output
          /\ pc' # "pool"
          /\ next_task' = 1 /\ inflight' = {} /\ completed' = <<>>
          /\ pc' = "done" =>
                (masks_done' /\ \A im \in to_predict' : exists(store'[im])) ]_vars

C10_Witness ==
    /\ pc = "done"
    /\ args.masks_only
    /\ inferred # {}
    /\ output = <<>>

\* C11: while main runs with an output path that does not end in '.csv' it
\* only fails: the store directory is not created, the model is not loaded, no
\* inference call is made, no mask file is written, the output table is not
\* opened and no task is handed to the pool.
C11_FailFast ==
    [][ ~args'.csv =>
          /\ pc' \in {"assert", "failed"}
          /\ store_dir' = store_dir
          /\ store' = store
          /\ output' = output
          /\ model' = FALSE
          /\ inferred' = {}
          /\ to_predict' = {} /\ to_output' = <<>> /\ inflight' = {} ]_vars

C11_Witness ==
    /\ pc = "failed"
    /\ ~args.csv
    /\ ~store_dir
    /\ output = <<>>

\* how many rows of the output table carry image im
RowCount(out, im) == Cardinality({k \in RowIdx(out) : ImageOf(out, k) = im})

RECURSIVE Written(_, _)
\* the rows of the first n results, in the order pool.imap yields them
Written(res, n) == IF n = 0 THEN <<>> ELSE Written(res, n - 1) \o res[n].rows

\* main is in, or has left, the polygon phase of the invocation
InPolygons == to_output # <<>>

\* C12 (as stated): at every point of every run each ImageId has either all
\* len(classes) of its rows in the output table or none.
C12_Original == \A im \in Ids : RowCount(output, im) \in {0, Len(classes)}

\* C12 (amended): a failed task ends the batch (main never writes a row of the
\* failed task or of a later one, and does not finish normally), and at every
\* point of every run each ImageId has in the output table either none of its
\* rows or all the rows its task returned: len(classes) rows, or one per
\* distinct class index in the prediction branch.
C12_Whole ==
    /\ \A im \in Ids :
          RowCount(output, im) \in
              {0, IF im \in TrainIds THEN Len(classes)
                  ELSE Cardinality(Range(classes))}
    /\ InPolygons =>
          /\ output = <<header>> \o Written(results, n_written)
          /\ \A i \in 1..n_written : results[i].status = "ok"
          /\ pc = "done" => n_written = Len(to_output)
          /\ pc = "failed" => results[n_written + 1].status = "raised"

C12_Witness ==
    /\ pc = "failed"
    /\ InPolygons
    /\ n_written >= 1
    /\ RowCount(output, to_output[1]) > 0
    /\ RowCount(output, to_output[n_written + 1]) = 0

\* the cached mask of the call loads and its channel count is not len(classes)
Mismatch == complete(store[call_im]) /\ store[call_im].ch # Len(classes)

\* C13: a cached mask whose channel count differs from len(classes) ends
\* get_poly_data in the assertion failure of get_polygons before any class
\* channel is vectorized: no polygon collection is produced, no row is
\* returned, and neither the class list nor the channels are cut to fit.
C13_Assert ==
    (Called /\ Mismatch) =>
        /\ call_ret.status = "raised"
        /\ call_ret.branch = "assert"
        /\ call_ret.polys = 0
        /\ call_ret.rows = <<>>

C13_Witness ==
    /\ Called
    /\ store[call_im].ch > Len(classes)
    /\ call_ret.status = "raised"

\* the targets the for loop of the mask phase has gone past
Visited == to_predict \ Range(todo)

\* C14: the mask phase visits its targets in ascending order (what is left to
\* visit ascends and lies above everything visited), at most one inference
\* call is in flight, it is the call for the id the loop is at, and no
\* inference call is in flight while a task has been handed to the pool.
C14_Sequential ==
    /\ \A i, j \in 1..Len(todo) : i < j => todo[i] < todo[j]
    /\ \A v \in Visited : \A t \in Range(todo) : v < t
    /\ Cardinality(predicting) <= 1
    /\ predicting # {} => (pc = "predicting" /\ predicting = {Head(todo)})
    /\ (next_task > 1 \/ inflight # {} \/ pc = "pool") => predicting = {}
    /\ pc = "predicting" => (inflight = {} /\ next_task = 1)

C14_Witness ==
    /\ pc = "predicting"
    /\ predicting # {}
    /\ Visited # {}
    /\ Visited \cap inferred # {}

\* main is between im_path.open('wb') and the end of np.save for image im
Logged == logged # NotLogged
Identical == pred_mask = true_mask
InUnit(v) == FLe(FloatZero, v) /\ FLe(v, FloatOne)

\* C15 as stated: for every pair of masks of equal size the mask jaccard
\* that is logged lies in [0,1], and is logged as 1.0 when the two masks are
\* identical.
C15_Original ==
    Logged =>
        /\ InUnit(logged.value)
        /\ Identical => logged.text = 100000

\* C15: for every pair of masks of equal size the mask jaccard
\* tp / (tp + fp + fn + eps) lies in [0,1]; for two identical masks with a
\* pixel set it is within 2^-49 of 1.0 and is logged as 1.00000, and for two
\* identical masks with no pixel set it is 0.0, logged as 0.00000.
C15_Jaccard ==
    Logged =>
        /\ InUnit(logged.value)
        /\ (Identical /\ pred_mask # {}) =>
              /\ FClose(logged.value, FloatOne, 49)
              /\ logged.text = 100000
        /\ (Identical /\ pred_mask = {}) =>
              /\ logged.value = FloatZero
              /\ logged.text = 0

C15_Witness ==
    /\ Logged
    /\ Identical
    /\ pred_mask = MaskPixels
    /\ logged.text = 100000
    /\ logged.value # FloatOne

Scaled == geo # <<None, None>>
ScaledBack == back # <<None, None>>

\* C16 as stated: get_polygons multiplies x by 1 / x_scaler and y by
\* 1 / y_scaler about the origin, and scaling its result by the forward
\* scalers reproduces the original pixel coordinates.
C16_Original ==
    /\ Scaled => geo = scale_polygons(vertex(pixel), get_scalers(scalers))
    /\ ScaledBack => back = vertex(pixel)

\* C16: get_polygons multiplies x by 1 / x_scaler and y by 1 / y_scaler about
\* the origin, which is the coordinate divided by its scaler up to a relative
\* error of 2^-51, and scaling its result by the forward scalers gives the
\* original pixel coordinates up to a relative error of 2^-51 (zero exactly).
C16_RoundTrip ==
    /\ Scaled =>
          \A i \in 1..2 :
             FClose(geo[i],
                    FDiv(vertex(pixel)[i], get_scalers(scalers)[i]), 51)
    /\ ScaledBack =>
          \A i \in 1..2 : FClose(back[i], vertex(pixel)[i], 51)

C16_Witness ==
    /\ ScaledBack
    /\ scalers[1] = 5
    /\ pixel[1] = 3
    /\ back[1] # vertex(pixel)[1]
    /\ FClose(back[1], vertex(pixel)[1], 51)

Writing(im) == pc = "opened" /\ todo # <<>> /\ Head(todo) = im

\* C17: a mask file that exists in the store, and that main is not writing at
\* this moment, holds the complete mask of a finished inference; so the test
\* of im_path.exists() never skips an id whose file is incomplete.
C17_Complete ==
    \A im \in Ids : (exists(store[im]) /\ ~Writing(im)) => complete(store[im])

\* the targets the command line asks for
Targets == IF args.train_only THEN TrainIds
           ELSE IF args.only # {} THEN args.only
           ELSE {image_ids[i] : i \in 1..Len(image_ids)}

\* C18: for every combination of --train-only and --only the mask phase
\* visits, and the polygon phase is handed, the ids the command line asks for
\* (train-only before an explicit subset, the subset before the sample
\* submission), every id is handed to the pool once, and a run that ends
\* normally has completed one task per id.
C18_Targets ==
    /\ pc \in {"loop", "predicting", "predicted", "opened", "masks"}
          => to_predict = Targets
    /\ masks_done => (todo = <<>> /\ Visited = Targets)
    /\ InPolygons =>
          /\ Range(to_output) = Targets
          /\ Range(to_output) = to_predict
          /\ Len(to_output) = Cardinality(Targets)
          /\ \A i, j \in 1..Len(completed) :
                completed[i] = completed[j] => i = j
          /\ Range(completed) \cap inflight = {}
          /\ Range(completed) \cup inflight \subseteq 1..(next_task - 1)
          /\ pc # "failed" =>
                Range(completed) \cup inflight = 1..(next_task - 1)
          /\ Complete => Range(completed) = 1..Len(to_output)

C18_Witness ==
    /\ Complete
    /\ args.train_only
    /\ args.only # {}
    /\ args.only # TrainIds
    /\ Range(to_output) = TrainIds

====
